---- MODULE Spec2Model ----
(***************************************************************************)
(* A model of src/0x02-redis_basic: the Redis-backed Cache class with its  *)
(* count_calls / call_history decorators (exercise.py) and the page cache  *)
(* module (web.py), which as committed fails to compile.                   *)
(*                                                                         *)
(* Representation of Python values.  A Python str is a sequence of code    *)
(* points, a bytes object a sequence of numbers in 0..255; every value is  *)
(* a record [t |-> <type>, v |-> <payload>].  The conversions str.encode,  *)
(* bytes.decode, repr, str and int are computed on these sequences.        *)
(* The texts of the model use code points below 2048 and none of the       *)
(* characters repr escapes (quote, backslash, control characters).         *)
(***************************************************************************)
EXTENDS Integers, Sequences, FiniteSets, TLC

(***************************************************************************)
(* Bounds of the exploration.                                              *)
(***************************************************************************)
\* callers (threads) that may use the store; Spec uses the first one only
NumCallers == 2
\* invocations of Cache.store explored in one behaviour
MaxStores == 3

Callers == 1..NumCallers

(***************************************************************************)
(* Python values.                                                          *)
(***************************************************************************)
PyStr(s) == [t |-> "str", v |-> s]
PyInt(n) == [t |-> "int", v |-> n]
PyBytes(b) == [t |-> "bytes", v |-> b]
PyList(l) == [t |-> "list", v |-> l]
PyNone == [t |-> "none", v |-> <<>>]
\* an exception raised out of a call
PyExc(name) == [t |-> "exc", v |-> name]
\* what print wrote to standard output, a sequence of lines
Printed(lines) == [t |-> "printed", v |-> lines]

(***************************************************************************)
(* Text conversions.                                                       *)
(***************************************************************************)
RECURSIVE Utf8Encode(_)
\* str.encode('utf-8'), for code points below 2048
Utf8Encode(s) ==
    IF s = <<>> THEN <<>>
    ELSE LET c == Head(s)
         IN  (IF c < 128 THEN <<c>>
              ELSE <<192 + (c \div 64), 128 + (c % 64)>>) \o Utf8Encode(Tail(s))

RECURSIVE Utf8Scan(_)
\* the code points of a UTF-8 byte sequence; -1 marks the first undecodable byte
Utf8Scan(b) ==
    IF b = <<>> THEN <<>>
    ELSE IF b[1] < 128 THEN <<b[1]>> \o Utf8Scan(Tail(b))
    ELSE IF b[1] \in 194..223 /\ Len(b) >= 2 /\ b[2] \in 128..191
         THEN <<(b[1] - 192) * 64 + (b[2] - 128)>> \o Utf8Scan(Tail(Tail(b)))
    ELSE <<-1>>

\* bytes.decode('utf-8'): the str, or UnicodeDecodeError
Utf8Decode(b) ==
    LET cps == Utf8Scan(b)
    IN  IF \E i \in 1..Len(cps) : cps[i] = -1
        THEN PyExc("UnicodeDecodeError")
        ELSE PyStr(cps)

RECURSIVE Digits(_)
\* the decimal digits of a natural number, as text
Digits(n) == IF n < 10 THEN <<48 + n>> ELSE Digits(n \div 10) \o <<48 + (n % 10)>>

\* repr of an int
IntRepr(n) == IF n < 0 THEN <<45>> \o Digits(-n) ELSE Digits(n)

RECURSIVE DigitsValue(_)
DigitsValue(s) ==
    IF s = <<>> THEN 0
    ELSE 10 * DigitsValue(SubSeq(s, 1, Len(s) - 1)) + (s[Len(s)] - 48)

\* the bytes int() skips at both ends: space, \t, \n, \v, \f, \r
IsSpace(c) == c \in {9, 10, 11, 12, 13, 32}

RECURSIVE StripLeft(_)
StripLeft(b) == IF b # <<>> /\ IsSpace(b[1]) THEN StripLeft(Tail(b)) ELSE b

RECURSIVE StripRight(_)
StripRight(b) ==
    IF b # <<>> /\ IsSpace(b[Len(b)]) THEN StripRight(SubSeq(b, 1, Len(b) - 1)) ELSE b

\* int(b) for a bytes object, base 10: surrounding whitespace is skipped, then
\* an optional sign and decimal digits, single underscores allowed between
\* digits; anything else is ValueError
ParseInt(b) ==
    LET text == StripRight(StripLeft(b))
        signed == text # <<>> /\ text[1] \in {43, 45}
        body == IF signed THEN Tail(text) ELSE text
        wellformed ==
            /\ body # <<>>
            /\ \A i \in 1..Len(body) : body[i] \in 48..57 \/ body[i] = 95
            /\ body[1] # 95 /\ body[Len(body)] # 95
            /\ \A i \in 1..(Len(body) - 1) : ~(body[i] = 95 /\ body[i + 1] = 95)
        value == DigitsValue(SelectSeq(body, LAMBDA c : c # 95))
    IN  IF wellformed
        THEN PyInt(IF signed /\ text[1] = 45 THEN -value ELSE value)
        ELSE PyExc("ValueError")

RECURSIVE JoinRepr(_)
RECURSIVE PyRepr(_)
\* repr of the elements of a list, separated by ", "
JoinRepr(l) ==
    IF l = <<>> THEN <<>>
    ELSE IF Len(l) = 1 THEN PyRepr(l[1])
    ELSE PyRepr(l[1]) \o <<44, 32>> \o JoinRepr(Tail(l))

\* repr(value): 'text', digits, [items]
PyRepr(x) ==
    IF x.t = "str" THEN <<39>> \o x.v \o <<39>>
    ELSE IF x.t = "int" THEN IntRepr(x.v)
    ELSE <<91>> \o JoinRepr(x.v) \o <<93>>

\* str(args) for the one-element positional tuple (x,)
StrOfArgs(x) == <<40>> \o PyRepr(x) \o <<44, 41>>

\* str(result) for the str that store returns
StrOfResult(x) == x.v

(***************************************************************************)
(* The Redis server behind redis.Redis(): a keyspace from key bytes to a   *)
(* string value or a list value.  Each command is atomic.                  *)
(***************************************************************************)
EmptyDb == [k \in {} |-> PyNone]

\* redis-py's encoding of a command argument: bytes, str, int (repr), else DataError
RedisEncode(x) ==
    IF x.t = "bytes" THEN x
    ELSE IF x.t = "str" THEN PyBytes(Utf8Encode(x.v))
    ELSE IF x.t = "int" THEN PyBytes(Utf8Encode(IntRepr(x.v)))
    ELSE PyExc("DataError")

\* a SET that replaces the keyspace by the one key it writes
RedisSetAlone(db, k, b) ==
    [x \in {k} |-> [t |-> "string", v |-> b]]

\* SET key value
RedisSet(db, k, b) ==
    [x \in DOMAIN db \cup {k} |-> IF x = k THEN [t |-> "string", v |-> b] ELSE db[x]]

\* GET key: None when absent, WRONGTYPE on a list
RedisGet(db, k) ==
    IF k \notin DOMAIN db THEN PyNone
    ELSE IF db[k].t = "string" THEN PyBytes(db[k].v)
    ELSE PyExc("ResponseError")

\* an INCR that writes 1 whatever the key held
RedisIncrFromZero(db, k) ==
    [x \in DOMAIN db \cup {k} |-> IF x = k THEN [t |-> "string", v |-> <<49>>] ELSE db[x]]

\* INCR key: an absent key counts from 0; the value is kept as decimal text
RedisIncr(db, k) ==
    LET cur == IF k \notin DOMAIN db THEN PyInt(0)
               ELSE IF db[k].t = "string" THEN ParseInt(db[k].v)
               ELSE PyExc("ResponseError")
    IN  IF cur.t = "int" THEN RedisSet(db, k, Utf8Encode(IntRepr(cur.v + 1))) ELSE db

\* an LPUSH in the place of RPUSH: the value goes to the head of the list
RedisLpush(db, k, b) ==
    IF k \notin DOMAIN db
    THEN [x \in DOMAIN db \cup {k} |-> IF x = k THEN [t |-> "list", v |-> <<b>>] ELSE db[x]]
    ELSE IF db[k].t = "list" THEN [db EXCEPT ![k].v = <<b>> \o @]
    ELSE db

\* RPUSH key value: an absent key starts an empty list
RedisRpush(db, k, b) ==
    IF k \notin DOMAIN db
    THEN [x \in DOMAIN db \cup {k} |-> IF x = k THEN [t |-> "list", v |-> <<b>>] ELSE db[x]]
    ELSE IF db[k].t = "list" THEN [db EXCEPT ![k].v = Append(@, b)]
    ELSE db

\* an LRANGE that answers for an absent key with a list of one empty element
RedisLrangeNeverEmpty(db, k) ==
    IF k \in DOMAIN db /\ db[k].t = "list" THEN db[k].v ELSE << <<>> >>

\* LRANGE key 0 -1: the whole list, empty when the key is absent
RedisLrange(db, k) ==
    IF k \in DOMAIN db /\ db[k].t = "list" THEN db[k].v ELSE <<>>

\* FLUSHDB
RedisFlushDb(db) == EmptyDb

(***************************************************************************)
(* exercise.py: key names, uuid keys, the data handed to store.            *)
(***************************************************************************)
\* method.__qualname__ of Cache.store, kept by functools.wraps: "Cache.store"
Qualname == <<67, 97, 99, 104, 101, 46, 115, 116, 111, 114, 101>>
\* __qualname__ of a second method handed to the same two decorators: "Cache.op"
OtherQualname == <<67, 97, 99, 104, 101, 46, 111, 112>>

\* count_calls(method): key = f"{method.__qualname__}:calls"
CallsKeyOf(q) == q \o <<58, 99, 97, 108, 108, 115>>

\* an input key that leaves the name of the method out: ":inputs"
InputsKeyUnqualified(q) == <<58, 105, 110, 112, 117, 116, 115>>

\* call_history(method): input_key = f"{method.__qualname__}:inputs"
InputsKeyOf(q) == q \o <<58, 105, 110, 112, 117, 116, 115>>
\* call_history(method): output_key = f"{method.__qualname__}:outputs"
OutputsKeyOf(q) == q \o <<58, 111, 117, 116, 112, 117, 116, 115>>

\* the three keys of Cache.store
CallsKey == CallsKeyOf(Qualname)
InputsKey == InputsKeyOf(Qualname)
OutputsKey == OutputsKeyOf(Qualname)

\* a key generated once and used by every invocation
UuidOnce(n) == <<117, 117, 105, 100, 45, 48>>

\* str(uuid.uuid4()) of the n-th invocation of store: a key never generated before
\* (the 36 characters of a uuid are abridged to "uuid-<n>")
Uuid(n) == <<117, 117, 105, 100, 45>> \o Digits(n)

\* the data values handed to store: "x", "é" (two bytes in UTF-8), 42, -7 and
\* the list [1], a type redis-py refuses with DataError
Data == { PyStr(<<120>>), PyStr(<<233>>), PyInt(42), PyInt(-7), PyList(<<PyInt(1)>>) }

\* the keys handed to get, get_str and get_int: every key store can return
ReadKeys == { Uuid(n) : n \in 1..MaxStores }

(***************************************************************************)
(* Cache.get and Cache.replay as functions of the keyspace.                *)
(***************************************************************************)
\* fn(data) for the two converters get_str and get_int pass
ApplyFn(fn, data) ==
    IF fn = "decode" THEN Utf8Decode(data.v) ELSE ParseInt(data.v)

\* a get that hands whatever it read to the converter, None included
CacheGetConvertFirst(db, key, fn) ==
    LET data == RedisGet(db, Utf8Encode(key))
    IN  IF data.t = "exc" THEN data
        ELSE IF fn # "None" THEN (IF data = PyNone THEN PyExc("TypeError") ELSE ApplyFn(fn, data))
        ELSE data

\* Cache.get(key, fn); fn = "None" is the default
CacheGet(db, key, fn) ==
    LET data == RedisGet(db, Utf8Encode(key))
    IN  IF data = PyNone THEN PyNone
        ELSE IF data.t = "exc" THEN data
        ELSE IF fn # "None" THEN ApplyFn(fn, data)
        ELSE data

\* Cache.get_str(key)
CacheGetStr(db, key) == CacheGet(db, key, "decode")

\* Cache.get_int(key)
CacheGetInt(db, key) == CacheGet(db, key, "int")

\* the three lines replay prints for call i
ReplayEntry(i, input_data, output_data) ==
    << <<67, 97, 108, 108, 32>> \o IntRepr(i) \o <<58>>,
       <<32, 32, 32, 32, 73, 110, 112, 117, 116, 115, 58, 32>> \o Utf8Decode(input_data).v,
       <<32, 32, 32, 32, 79, 117, 116, 112, 117, 116, 115, 58, 32>> \o Utf8Decode(output_data).v >>

RECURSIVE ReplayLines(_, _, _)
\* the loop of replay: enumerate(zip(inputs, outputs), 1), from index i on
ReplayLines(inputs, outputs, i) ==
    IF i > Len(inputs) \/ i > Len(outputs) THEN <<>>
    ELSE ReplayEntry(i, inputs[i], outputs[i]) \o ReplayLines(inputs, outputs, i + 1)

(***************************************************************************)
(* State of exercise.py.                                                   *)
(*   redis   the keyspace of the Redis database every Cache shares         *)
(*   nstore  how many times Cache.store has been invoked                   *)
(*   pc      where each caller stands inside the call it is making         *)
(*   frame   the local variables of that call                              *)
(*   out     what each caller's latest call returned, raised or printed    *)
(*   log     the store invocations that began since the last flush, and    *)
(*           before them those the last flush found under way (marked      *)
(*           cut), in the order they began: their argument and their       *)
(*           outcome (history variable)                                    *)
(*   lastget when the latest call a caller finished is get, get_str or     *)
(*           get_int: the converter, the key, and whether the store held   *)
(*           the key when it was read (history variable)                   *)
(***************************************************************************)
VARIABLES redis, nstore, pc, frame, out, log, lastget

cacheVars == <<redis, nstore, pc, frame, out, log, lastget>>

\* the state of web.py, described with its operations below
VARIABLES now, wout, fetches, wpc, sysmodules

webVars == <<now, wout, fetches, wpc, sysmodules>>

\* the locals of a caller that is in no call
NoFrame == [data |-> PyNone, n |-> 0, cid |-> 0, key |-> <<>>, inputs |-> <<>>]
\* the outcome of an invocation that has not finished
Pending == [t |-> "pending", v |-> <<>>]
\* the latest call was not a read
NoGet == [fn |-> "", key |-> <<>>, found |-> FALSE]
\* a read of key through converter fn, as it met the keyspace db
GetRecord(db, key, fn) == [fn |-> fn, key |-> key, found |-> Utf8Encode(key) \in DOMAIN db]

CacheInit ==
    /\ redis = EmptyDb
    /\ nstore = 0
    /\ pc = [p \in Callers |-> "idle"]
    /\ frame = [p \in Callers |-> NoFrame]
    /\ out = [p \in Callers |-> PyNone]
    /\ log = <<>>
    /\ lastget = [p \in Callers |-> NoGet]

\* Cache(): redis.Redis() and flushdb(), by a caller that is in no call itself;
\* the calls other callers have under way go on against the emptied store
Construct(p) ==
    /\ pc[p] = "idle"
    /\ redis' = RedisFlushDb(redis)
    /\ LET underway == SelectSeq(log, LAMBDA e : e.result = Pending)
       IN  /\ log' = [i \in 1..Len(underway) |-> [underway[i] EXCEPT !.cut = TRUE]]
           /\ frame' = [q \in Callers |->
                          IF frame[q].cid = 0 THEN frame[q]
                          ELSE [frame[q] EXCEPT !.cid =
                                   Cardinality({ c \in 1..frame[q].cid :
                                                   log[c].result = Pending })]]
    /\ out' = [out EXCEPT ![p] = PyNone]
    /\ lastget' = [lastget EXCEPT ![p] = NoGet]
    /\ UNCHANGED <<nstore, pc>>
    /\ UNCHANGED webVars

\* cache.store(d) enters count_calls.wrapper: self._redis.incr(key)
CountCalls(p, d) ==
    /\ pc[p] = "idle"
    /\ nstore < MaxStores
    /\ redis' = RedisIncr(redis, Utf8Encode(CallsKey))
    /\ nstore' = nstore + 1
    /\ frame' = [frame EXCEPT ![p] = [NoFrame EXCEPT !.data = d, !.n = nstore + 1,
                                                      !.cid = Len(log) + 1]]
    /\ log' = Append(log, [args |-> d, result |-> Pending, cut |-> FALSE])
    /\ pc' = [pc EXCEPT ![p] = "history_in"]
    /\ out' = [out EXCEPT ![p] = PyNone]
    /\ lastget' = [lastget EXCEPT ![p] = NoGet]
    /\ UNCHANGED webVars

\* an input record kept only for data that store will be able to write
HistoryInputIfStorable(p) ==
    /\ pc[p] = "history_in"
    /\ redis' = IF RedisEncode(frame[p].data).t = "exc" THEN redis
                ELSE RedisRpush(redis, Utf8Encode(InputsKey),
                                RedisEncode(PyStr(StrOfArgs(frame[p].data))).v)
    /\ pc' = [pc EXCEPT ![p] = "method"]
    /\ UNCHANGED <<nstore, frame, out, log, lastget>>
    /\ UNCHANGED webVars

\* call_history.wrapper: self._redis.rpush(input_key, str(args))
HistoryInput(p) ==
    /\ pc[p] = "history_in"
    /\ redis' = RedisRpush(redis, Utf8Encode(InputsKey),
                           RedisEncode(PyStr(StrOfArgs(frame[p].data))).v)
    /\ pc' = [pc EXCEPT ![p] = "method"]
    /\ UNCHANGED <<nstore, frame, out, log, lastget>>
    /\ UNCHANGED webVars

\* a store whose failure takes the call back out of the counter
StoreBodyUncounting(p) ==
    /\ pc[p] = "method"
    /\ LET key == Uuid(frame[p].n)
           value == RedisEncode(frame[p].data)
           counted == ParseInt(RedisGet(redis, Utf8Encode(CallsKey)).v).v
       IN  IF value.t = "exc"
           THEN /\ pc' = [pc EXCEPT ![p] = "idle"]
                /\ out' = [out EXCEPT ![p] = value]
                /\ log' = [log EXCEPT ![frame[p].cid].result = value]
                /\ frame' = [frame EXCEPT ![p] = NoFrame]
                /\ redis' = RedisSet(redis, Utf8Encode(CallsKey),
                                     Utf8Encode(IntRepr(counted - 1)))
           ELSE /\ redis' = RedisSet(redis, Utf8Encode(key), value.v)
                /\ frame' = [frame EXCEPT ![p].key = key]
                /\ pc' = [pc EXCEPT ![p] = "history_out"]
                /\ UNCHANGED <<out, log>>
    /\ UNCHANGED <<nstore, lastget>>
    /\ UNCHANGED webVars

\* Cache.store: key = str(uuid.uuid4()); self._redis.set(key, data); a value
\* redis-py cannot encode raises DataError through both wrappers
StoreBody(p) ==
    /\ pc[p] = "method"
    /\ LET key == Uuid(frame[p].n)
           value == RedisEncode(frame[p].data)
       IN  IF value.t = "exc"
           THEN /\ pc' = [pc EXCEPT ![p] = "idle"]
                /\ out' = [out EXCEPT ![p] = value]
                /\ log' = [log EXCEPT ![frame[p].cid].result = value]
                /\ frame' = [frame EXCEPT ![p] = NoFrame]
                /\ UNCHANGED redis
           ELSE /\ redis' = RedisSet(redis, Utf8Encode(key), value.v)
                /\ frame' = [frame EXCEPT ![p].key = key]
                /\ pc' = [pc EXCEPT ![p] = "history_out"]
                /\ UNCHANGED <<out, log>>
    /\ UNCHANGED <<nstore, lastget>>
    /\ UNCHANGED webVars

\* call_history.wrapper: self._redis.rpush(output_key, str(result)); return result
HistoryOutput(p) ==
    /\ pc[p] = "history_out"
    /\ LET result == PyStr(frame[p].key)
       IN  /\ redis' = RedisRpush(redis, Utf8Encode(OutputsKey),
                                  RedisEncode(PyStr(StrOfResult(result))).v)
           /\ out' = [out EXCEPT ![p] = result]
           /\ log' = [log EXCEPT ![frame[p].cid].result = result]
    /\ pc' = [pc EXCEPT ![p] = "idle"]
    /\ frame' = [frame EXCEPT ![p] = NoFrame]
    /\ UNCHANGED <<nstore, lastget>>
    /\ UNCHANGED webVars

\* cache.get(key)
Get(p, key) ==
    /\ pc[p] = "idle"
    /\ out' = [out EXCEPT ![p] = CacheGet(redis, key, "None")]
    /\ lastget' = [lastget EXCEPT ![p] = GetRecord(redis, key, "None")]
    /\ UNCHANGED <<redis, nstore, pc, frame, log>>
    /\ UNCHANGED webVars

\* cache.get_str(key)
GetStr(p, key) ==
    /\ pc[p] = "idle"
    /\ out' = [out EXCEPT ![p] = CacheGetStr(redis, key)]
    /\ lastget' = [lastget EXCEPT ![p] = GetRecord(redis, key, "decode")]
    /\ UNCHANGED <<redis, nstore, pc, frame, log>>
    /\ UNCHANGED webVars

\* cache.get_int(key)
GetInt(p, key) ==
    /\ pc[p] = "idle"
    /\ out' = [out EXCEPT ![p] = CacheGetInt(redis, key)]
    /\ lastget' = [lastget EXCEPT ![p] = GetRecord(redis, key, "int")]
    /\ UNCHANGED <<redis, nstore, pc, frame, log>>
    /\ UNCHANGED webVars

\* cache.replay(cache.store): inputs = self._redis.lrange(input_key, 0, -1)
ReplayInputs(p) ==
    /\ pc[p] = "idle"
    /\ frame' = [frame EXCEPT ![p] = [NoFrame EXCEPT !.inputs = RedisLrange(redis, Utf8Encode(InputsKey))]]
    /\ pc' = [pc EXCEPT ![p] = "replay"]
    /\ out' = [out EXCEPT ![p] = PyNone]
    /\ lastget' = [lastget EXCEPT ![p] = NoGet]
    /\ UNCHANGED <<redis, nstore, log>>
    /\ UNCHANGED webVars

\* replay: outputs = self._redis.lrange(output_key, 0, -1) and the printing loop
ReplayOutputs(p) ==
    /\ pc[p] = "replay"
    /\ LET outputs == RedisLrange(redis, Utf8Encode(OutputsKey))
       IN  out' = [out EXCEPT ![p] = Printed(ReplayLines(frame[p].inputs, outputs, 1))]
    /\ pc' = [pc EXCEPT ![p] = "idle"]
    /\ frame' = [frame EXCEPT ![p] = NoFrame]
    /\ UNCHANGED <<redis, nstore, log, lastget>>
    /\ UNCHANGED webVars

(***************************************************************************)
(* The two decorators around a second method, op(self, x), stacked as they *)
(* are on store: count_calls outside call_history.  What op does is left   *)
(* open but for its outcome: it returns a str or raises, and it does not   *)
(* write to the store.                                                     *)
(***************************************************************************)
\* the arguments op is called with
OpArgs == { PyInt(42), PyStr(<<120>>) }
\* what op can do: return "r" or raise
OpOutcomes == { PyStr(<<114>>), PyExc("ValueError") }

\* the number held under "Cache.op:calls"; an absent key reads as 0
OpCounterValue(db) ==
    LET data == RedisGet(db, Utf8Encode(CallsKeyOf(OtherQualname)))
    IN  IF data = PyNone THEN 0 ELSE ParseInt(data.v).v

\* cache.op(x) enters count_calls.wrapper: self._redis.incr(key)
OpCountCalls(p, x) ==
    /\ pc[p] = "idle"
    /\ OpCounterValue(redis) < MaxStores
    /\ redis' = RedisIncr(redis, Utf8Encode(CallsKeyOf(OtherQualname)))
    /\ frame' = [frame EXCEPT ![p] = [NoFrame EXCEPT !.data = x]]
    /\ pc' = [pc EXCEPT ![p] = "op_history_in"]
    /\ out' = [out EXCEPT ![p] = PyNone]
    /\ lastget' = [lastget EXCEPT ![p] = NoGet]
    /\ UNCHANGED <<nstore, log>>
    /\ UNCHANGED webVars

\* call_history.wrapper: self._redis.rpush(input_key, str(args))
OpHistoryInput(p) ==
    /\ pc[p] = "op_history_in"
    /\ redis' = RedisRpush(redis, Utf8Encode(InputsKeyOf(OtherQualname)),
                           RedisEncode(PyStr(StrOfArgs(frame[p].data))).v)
    /\ pc' = [pc EXCEPT ![p] = "op_method"]
    /\ UNCHANGED <<nstore, frame, out, log, lastget>>
    /\ UNCHANGED webVars

\* result = method(self, *args, **kwargs): op returns r, or raises r through
\* both wrappers
OpBody(p, r) ==
    /\ pc[p] = "op_method"
    /\ IF r.t = "exc"
       THEN /\ pc' = [pc EXCEPT ![p] = "idle"]
            /\ out' = [out EXCEPT ![p] = r]
            /\ frame' = [frame EXCEPT ![p] = NoFrame]
       ELSE /\ pc' = [pc EXCEPT ![p] = "op_history_out"]
            /\ frame' = [frame EXCEPT ![p].key = r.v]
            /\ UNCHANGED out
    /\ UNCHANGED <<redis, nstore, log, lastget>>
    /\ UNCHANGED webVars

\* call_history.wrapper: self._redis.rpush(output_key, str(result)); return result
OpHistoryOutput(p) ==
    /\ pc[p] = "op_history_out"
    /\ LET result == PyStr(frame[p].key)
       IN  /\ redis' = RedisRpush(redis, Utf8Encode(OutputsKeyOf(OtherQualname)),
                                  RedisEncode(PyStr(StrOfResult(result))).v)
           /\ out' = [out EXCEPT ![p] = result]
    /\ pc' = [pc EXCEPT ![p] = "idle"]
    /\ frame' = [frame EXCEPT ![p] = NoFrame]
    /\ UNCHANGED <<nstore, log, lastget>>
    /\ UNCHANGED webVars

(***************************************************************************)
(* web.py.  The file as committed cannot be compiled, so that nothing it   *)
(* defines exists at run time: importing it, or running it, raises         *)
(* SyntaxError before its first statement is executed.  Two lines stand    *)
(* out of place.  The else of get_page (line 27) is in column 0 while its  *)
(* if (line 21) is indented by four: "SyntaxError: invalid syntax".  With  *)
(* that line moved the compiler would stop at cache_result: the docstring  *)
(* that opens its body (line 41) is indented by one and the next statement *)
(* of the body (line 51) by four: "IndentationError: unexpected indent".   *)
(* No cache is created, no function is wrapped, no page is requested.      *)
(***************************************************************************)
\* @cache_result(ttl=10), and TTLCache(maxsize=100, ttl=10) in get_page
ttl == 10
\* TTLCache(maxsize=100, ...)
maxsize == 100

\* the leading blanks of "if url in cache:" (line 21) and of its "else:" (line 27)
IfIndent == 4
ElseIndent == 0
\* the leading blanks of the first two statements of the body of cache_result:
\* the docstring (line 41) and "def decorator(function):" (line 51)
DocstringIndent == 1
DecoratorIndent == 4

\* compile(source) for web.py: None when the file compiles, else the error of the
\* first line the parser rejects.  An else that does not stand under its if
\* is rejected; a statement indented more than the one before it in its block
\* is rejected.
CompileWeb ==
    IF ElseIndent # IfIndent THEN PyExc("SyntaxError")
    ELSE IF DecoratorIndent > DocstringIndent THEN PyExc("IndentationError")
    ELSE PyNone

\* distinct urls the callers ask for (the burst of SpecFill has its own FillArgs)
NumArgs == 1
\* the clock stops at this time
MaxTime == 12
\* uses of one function for one url counted within ttl of the first of them
MaxFetches == 3

Args == 1..NumArgs

\* the two functions web.py is written to provide
FnGetPage == "get_page"
FnDecorated == "get_page_with_decorator"

(***************************************************************************)
(* State of the callers of web.py.                                         *)
(*   now      the clock, in seconds                                        *)
(*   wout     what each caller's latest use of web.py returned or raised   *)
(*   wpc      where each caller stands in "from web import <fn>": "idle",  *)
(*            "loading" (it registered the module and is about to execute  *)
(*            the file) or "partial" (it took the module another caller    *)
(*            is loading and waits for that load to end)                   *)
(*   sysmodules  the caller whose load has 'web' in sys.modules, 0 when    *)
(*            sys.modules has no 'web'                                     *)
(*   fetches  per function and url asked for, about the uses made within   *)
(*            ttl of the first of them (a window; a use at start + ttl or  *)
(*            later opens the next window): when the window began, the     *)
(*            uses made in it, how often requests.get ran for them (runs), *)
(*            how many of them returned a page (pages), how many the       *)
(*            access counter of lines 25 and 33 recorded (counted), the    *)
(*            windows so far, the callers of this window, and the number   *)
(*            of distinct urls that had been asked of the function when    *)
(*            the latest use was made (history variable)                   *)
(***************************************************************************)
NoFetch == [start |-> 0, calls |-> 0, runs |-> 0, pages |-> 0, counted |-> 0,
            windows |-> 0, callers |-> {}, seen |-> 0]

WebInit ==
    /\ now = 0
    /\ wout = [p \in Callers |-> PyNone]
    /\ fetches = [k \in {} |-> NoFetch]
    /\ wpc = [p \in Callers |-> "idle"]
    /\ sysmodules = 0

\* a caller begins "from web import <fn>" in order to call fn(url).  Loading a
\* module is not one step.  When sys.modules has no 'web' the caller takes the
\* module's lock, makes an empty module and registers it in sys.modules; the
\* file is executed in a later step (ExecModule).  When another caller's load
\* has 'web' registered, the caller takes that empty module as it is and
\* waits for the load to end (ImportFrom).
UseWeb(p, fn, a) ==
    /\ wpc[p] = "idle"
    /\ LET k == <<fn, a>>
           known == k \in DOMAIN fetches
           open == known /\ now < fetches[k].start + ttl
           window == IF open THEN fetches[k]
                     ELSE [NoFetch EXCEPT !.start = now,
                                          !.windows = (IF known THEN fetches[k].windows ELSE 0) + 1]
           asked == { x \in DOMAIN fetches \cup {k} : x[1] = fn }
       IN  /\ open => fetches[k].calls < MaxFetches
           /\ fetches' = [x \in DOMAIN fetches \cup {k} |->
                            IF x = k
                            THEN [window EXCEPT !.calls = @ + 1,
                                                !.callers = @ \cup {p},
                                                !.seen = Cardinality(asked)]
                            ELSE fetches[x]]
    /\ IF sysmodules = 0
       THEN /\ sysmodules' = p
            /\ wpc' = [wpc EXCEPT ![p] = "loading"]
       ELSE /\ wpc' = [wpc EXCEPT ![p] = "partial"]
            /\ UNCHANGED sysmodules
    /\ UNCHANGED <<now, wout>>
    /\ UNCHANGED cacheVars

\* the loading caller executes the file: the compiler rejects it, the module is
\* taken out of sys.modules again, the lock is released and the error reaches
\* the caller; the call that was to follow the import is never made
ExecModule(p) ==
    /\ wpc[p] = "loading"
    /\ CompileWeb.t = "exc"
    /\ sysmodules' = 0
    /\ wout' = [wout EXCEPT ![p] = CompileWeb]
    /\ wpc' = [wpc EXCEPT ![p] = "idle"]
    /\ UNCHANGED <<now, fetches>>
    /\ UNCHANGED cacheVars

\* the caller that took the empty module goes on once the load it waited for
\* has ended: the module has no attribute of the name asked for, "ImportError:
\* cannot import name"; the call that was to follow is never made
ImportFrom(p) ==
    /\ wpc[p] = "partial"
    /\ sysmodules = 0
    /\ wout' = [wout EXCEPT ![p] = PyExc("ImportError")]
    /\ wpc' = [wpc EXCEPT ![p] = "idle"]
    /\ UNCHANGED <<now, fetches, sysmodules>>
    /\ UNCHANGED cacheVars

\* get_page(url), lines 6-36
GetPage(p, a) == UseWeb(p, FnGetPage, a)

\* get_page_with_decorator(url), lines 67-78, wrapped by cache_result (lines 40-65)
GetPageWithDecorator(p, a) == UseWeb(p, FnDecorated, a)

\* a second passes on the clock
Tick ==
    /\ now < MaxTime
    /\ now' = now + 1
    /\ UNCHANGED <<wout, fetches, wpc, sysmodules>>
    /\ UNCHANGED cacheVars

vars == <<redis, nstore, pc, frame, out, log, lastget, now, wout, fetches, wpc, sysmodules>>

Init == CacheInit /\ WebInit

\* one caller using the Cache, one call after the other
Next ==
    \E p \in {1} :
     \/ Construct(p)
     \/ \E d \in Data : CountCalls(p, d)
     \/ HistoryInput(p)
     \/ StoreBody(p)
     \/ HistoryOutput(p)
     \/ \E key \in ReadKeys : Get(p, key)
     \/ \E key \in ReadKeys : GetStr(p, key)
     \/ \E key \in ReadKeys : GetInt(p, key)
     \/ ReplayInputs(p)
     \/ ReplayOutputs(p)

Spec == Init /\ [][Next]_vars

\* two callers using the same Cache at once, their steps interleaved
NextConc ==
    \E p \in Callers :
     \/ Construct(p)
     \/ \E d \in Data : CountCalls(p, d)
     \/ HistoryInput(p)
     \/ StoreBody(p)
     \/ HistoryOutput(p)
     \/ ReplayInputs(p)
     \/ ReplayOutputs(p)

\* callers of the two functions of web.py, and the clock
NextWeb ==
    \/ \E p \in Callers, a \in Args : GetPageWithDecorator(p, a)
    \/ \E p \in Callers, a \in Args : GetPage(p, a)
    \/ \E p \in Callers : ExecModule(p)
    \/ \E p \in Callers : ImportFrom(p)
    \/ Tick

SpecWeb == Init /\ [][NextWeb]_vars

SpecConc == Init /\ [][NextConc]_vars

\* the distinct urls of a burst of calls that would overfill a cache of maxsize
FillArgs == maxsize + 1

\* the urls the decorated function has been asked for
AskedDecorated == { k[2] : k \in { x \in DOMAIN fetches : x[1] = FnDecorated } }

\* a burst of calls within one second: the caller asks for the first url again or
\* for a url never asked for before
NextFill ==
    \/ \E a \in {1} \cup ({Cardinality(AskedDecorated) + 1} \cap (1..FillArgs)) :
          GetPageWithDecorator(1, a)
    \/ ExecModule(1)

SpecFill == Init /\ [][NextFill]_vars

\* two callers of store on the same Cache, their steps interleaved, and new
\* Caches made at any point; the data are "x" and the list [1]
NextPair ==
    \E p \in {1, 2} :
     \/ Construct(p)
     \/ \E d \in { PyStr(<<120>>), PyList(<<PyInt(1)>>) } : CountCalls(p, d)
     \/ HistoryInput(p)
     \/ StoreBody(p)
     \/ HistoryOutput(p)

SpecPair == Init /\ [][NextPair]_vars

\* the data handed to store next to calls of op: "x" and the list [1]
OpsData == { PyStr(<<120>>), PyList(<<PyInt(1)>>) }

\* one caller of store and one caller of op on the same Cache, their steps
\* interleaved
NextOps ==
    \/ \E d \in OpsData : CountCalls(1, d)
    \/ HistoryInput(1)
    \/ StoreBody(1)
    \/ HistoryOutput(1)
    \/ \E x \in OpArgs : OpCountCalls(2, x)
    \/ OpHistoryInput(2)
    \/ \E r \in OpOutcomes : OpBody(2, r)
    \/ OpHistoryOutput(2)

SpecOps == Init /\ [][NextOps]_vars

(***************************************************************************)
(* Readings of the state the claims are about.                             *)
(***************************************************************************)
\* the number held under "Cache.store:calls"; an absent key reads as 0
CounterValue(db) ==
    LET data == RedisGet(db, Utf8Encode(CallsKey))
    IN  IF data = PyNone THEN 0 ELSE ParseInt(data.v).v

\* the lists held under "Cache.store:inputs" and "Cache.store:outputs"
InputsList(db) == RedisLrange(db, Utf8Encode(InputsKey))
OutputsList(db) == RedisLrange(db, Utf8Encode(OutputsKey))

NoCallInProgress == \A p \in Callers : pc[p] = "idle"

\* a flush by Cache() has fallen inside a store call, and none between calls
\* has followed it
FlushedInsideCall == \E c \in 1..Len(log) : log[c].cut

\* every store invocation since the last flush returned a key
AllReturned == \A c \in 1..Len(log) : log[c].result.t = "str"

(***************************************************************************)
(* Claims about exercise.py.                                               *)
(***************************************************************************)
\* C3: after the N-th invocation of Cache.store on a store (N counted since the
\* store was last flushed, N >= 1) the value under "Cache.store:calls" is the
\* decimal text of N: every invocation raised it by exactly one.
C3_CounterEqualsInvocations ==
    Len(log) >= 1 =>
        RedisGet(redis, Utf8Encode(CallsKey)) = PyBytes(Utf8Encode(IntRepr(Len(log))))

\* C3 witness: three invocations have finished, one of them by raising
C3_Witness ==
    /\ NoCallInProgress
    /\ Len(log) = 3
    /\ \E c \in 1..3 : log[c].result.t = "exc"
    /\ CounterValue(redis) = 3

\* C4 (as claimed): whenever no call is in progress, also after calls whose
\* underlying operation failed, the inputs list and the outputs list have the
\* same length.
C4_HistoryLengthsEqual ==
    NoCallInProgress => Len(InputsList(redis)) = Len(OutputsList(redis))

\* C5 (as claimed): for every index i present in both history lists there is one
\* invocation whose argument tuple is inputs[i] and whose result is outputs[i];
\* stated for the moments when every call since the flush has returned a key
\* and no flush has fallen inside a call, under any interleaving of the callers.
C5_HistoryPairsSameCall ==
    (NoCallInProgress /\ AllReturned /\ ~FlushedInsideCall) =>
        \A i \in 1..Len(OutputsList(redis)) :
            /\ i <= Len(InputsList(redis))
            /\ \E c \in 1..Len(log) :
                /\ log[c].result.t = "str"
                /\ InputsList(redis)[i] = Utf8Encode(StrOfArgs(log[c].args))
                /\ OutputsList(redis)[i] = Utf8Encode(log[c].result.v)

\* C6 (as claimed): no step of the program, a Cache construction included,
\* lowers the call counter.
C6_CounterNeverDecreases ==
    [][CounterValue(redis') >= CounterValue(redis)]_vars

\* C6 (amended): store, get, get_str, get_int and replay never lower the call
\* counter; a Cache construction flushes the store and leaves the counter at 0.
C6_CounterLoweredOnlyByConstruct ==
    [][IF \E p \in Callers : Construct(p)
       THEN CounterValue(redis') = 0
       ELSE CounterValue(redis') >= CounterValue(redis)]_vars

\* C6 witness: store was invoked before the last construction and again after it
C6_Witness ==
    /\ nstore > Len(log)
    /\ CounterValue(redis) >= 1
    /\ out[1].t = "printed"

\* C7: when every one of the N store calls since the flush returned a key, a
\* replay prints exactly N entries, entry k being "Call k:", the argument tuple
\* of the k-th call and the key the k-th call returned.
C7_ReplayTranscript ==
    \A p \in Callers :
        (out[p].t = "printed" /\ AllReturned) =>
            /\ Len(out[p].v) = 3 * Len(log)
            /\ \A k \in 1..Len(log) :
                /\ out[p].v[3 * k - 2] = <<67, 97, 108, 108, 32>> \o Digits(k) \o <<58>>
                /\ out[p].v[3 * k - 1] =
                       <<32, 32, 32, 32, 73, 110, 112, 117, 116, 115, 58, 32>>
                           \o StrOfArgs(log[k].args)
                /\ out[p].v[3 * k] =
                       <<32, 32, 32, 32, 79, 117, 116, 112, 117, 116, 115, 58, 32>>
                           \o log[k].result.v

\* C7 witness: store("x") then store("é") returned and replay printed two entries
C7_Witness ==
    /\ out[1].t = "printed"
    /\ Len(out[1].v) = 6
    /\ Len(log) = 2
    /\ log[1].args = PyStr(<<120>>)
    /\ log[2].args = PyStr(<<233>>)
    /\ AllReturned

\* C9: for every store call that returned key k for data d, whatever stores
\* followed on the same Cache: get_str(k) is d when d is a str and get_int(k) is
\* d when d is an int.
C9_StoreRoundTrip ==
    \A c \in 1..Len(log) :
        log[c].result.t = "str" =>
            /\ log[c].args.t = "str" => CacheGetStr(redis, log[c].result.v) = log[c].args
            /\ log[c].args.t = "int" => CacheGetInt(redis, log[c].result.v) = log[c].args

\* C9 witness: after store("é") and two further stores, get_str of the first key
\* returned "é"; the second key holds -7
C9_Witness ==
    /\ Len(log) = 3
    /\ AllReturned
    /\ log[1].args = PyStr(<<233>>)
    /\ log[2].args = PyInt(-7)
    /\ out[1] = PyStr(<<233>>)
    /\ CacheGetInt(redis, log[2].result.v) = PyInt(-7)

(***************************************************************************)
(* Claims about web.py.                                                    *)
(***************************************************************************)
\* the windows of the urls asked of function fn
Windows(fn) == { fetches[k] : k \in { x \in DOMAIN fetches : x[1] = fn } }

\* C1 (as claimed): over the calls made for an argument within the TTL window
\* the wrapped function is invoked exactly once, and every call returns the
\* result of that invocation.
C1_OncePerArgumentInWindow ==
    \A w \in Windows(FnDecorated) : w.runs = 1 /\ w.pages = w.calls

\* C2 (as claimed): the first call for an argument once ttl has elapsed since
\* its entry was stored finds the entry gone, invokes the wrapped function again
\* and stores its result, which that call returns.
C2_ExpiredIsAbsent ==
    \A w \in Windows(FnDecorated) : w.windows >= 2 => (w.runs >= 1 /\ w.pages >= 1)

\* C8 (as claimed): after k fetches of one url inside one TTL window the page was
\* requested once and the access counter kept for the url has counted k.
C8_AccessCounterCountsFetches ==
    \A w \in Windows(FnGetPage) : w.runs = 1 /\ w.counted = w.calls

\* C10: of two callers that fetch the same uncached argument at the same time
\* at most one gets past the miss check, so that the wrapped function is invoked
\* at most once for that argument within the window.  With the file as committed
\* this holds of every window for want of any invocation: no caller gets as far
\* as the miss check of line 56, the state the sentence is about.
C10_AtMostOneInvocation ==
    \A w \in Windows(FnDecorated) : Cardinality(w.callers) >= 2 => w.runs <= 1

\* C11 (as claimed): a second call of get_page for a url made within ttl (10
\* seconds) of the first returns the cached content, and no second HTTP request
\* is made.
C11_SecondCallWithoutRequest ==
    \A w \in Windows(FnGetPage) : w.calls >= 2 => (w.pages >= 2 /\ w.runs <= 1)

\* C12: a read of a key the store does not hold is not an error: get, get_str
\* and get_int each return None (the converter is not applied to anything), and
\* the step leaves the store as it was.
C12_MissingKeyReadsNone ==
    [][\A p \in Callers :
         (lastget'[p] # lastget[p] /\ lastget'[p] # NoGet /\ ~lastget'[p].found) =>
             /\ out'[p] = PyNone
             /\ redis' = redis]_vars

\* C12 witness: with one key stored, get_int of a key never stored returned None
C12_Witness ==
    /\ Utf8Encode(Uuid(1)) \in DOMAIN redis
    /\ lastget[1] = [fn |-> "int", key |-> Uuid(2), found |-> FALSE]
    /\ out[1] = PyNone

\* the store holds neither history list of Cache.store
NoHistory(db) ==
    /\ Utf8Encode(InputsKey) \notin DOMAIN db
    /\ Utf8Encode(OutputsKey) \notin DOMAIN db

\* C13: a replay run while the store holds no inputs list and no outputs list
\* completes normally having printed nothing, and neither of its two reads
\* changes the store.
C13_ReplayWithoutHistory ==
    [][\A p \in Callers :
         /\ (pc[p] = "idle" /\ pc'[p] = "replay") => redis' = redis
         /\ (pc[p] = "replay" /\ pc'[p] = "idle" /\ NoHistory(redis)) =>
                /\ out'[p] = Printed(<<>>)
                /\ redis' = redis]_vars

\* C13 witness: store was used, a new Cache flushed the store, and the replay
\* that followed printed an empty transcript
C13_Witness ==
    /\ nstore >= 1
    /\ NoHistory(redis)
    /\ pc[1] = "idle"
    /\ out[1] = Printed(<<>>)

\* the three keys the decorators keep for the method of qualified name q
InstrumentKeys(q) ==
    { Utf8Encode(CallsKeyOf(q)), Utf8Encode(InputsKeyOf(q)), Utf8Encode(OutputsKeyOf(q)) }

\* what the store holds under key k, None when it holds nothing
Held(db, k) == IF k \in DOMAIN db THEN db[k] ELSE PyNone

\* the keys whose content differs between two keyspaces
ChangedKeys(db1, db2) ==
    { k \in DOMAIN db1 \cup DOMAIN db2 : Held(db1, k) # Held(db2, k) }

\* C14: the counters and histories of two instrumented operations are
\* independent: a step of a store call changes, of all the counter and history
\* keys, only those of Cache.store (beside the data key store itself writes),
\* a step of a call of the other operation changes only that operation's three
\* keys, and so neither changes the counter or a history list of the other.
C14_InstrumentKeysIndependent ==
    [][/\ pc'[1] # pc[1] =>
            /\ ChangedKeys(redis, redis') \subseteq
                   InstrumentKeys(Qualname) \cup { Utf8Encode(Uuid(frame[1].n)) }
            /\ ChangedKeys(redis, redis') \cap InstrumentKeys(OtherQualname) = {}
       /\ pc'[2] # pc[2] =>
            /\ ChangedKeys(redis, redis') \subseteq InstrumentKeys(OtherQualname)
            /\ ChangedKeys(redis, redis') \cap InstrumentKeys(Qualname) = {}]_vars

\* C14 witness: calls of both operations were under way together and each has
\* left its own counter and its own lists: store was counted twice and returned
\* once, the other operation was counted three times and returned twice
C14_Witness ==
    /\ CounterValue(redis) = 2
    /\ Len(InputsList(redis)) = 2
    /\ Len(OutputsList(redis)) = 1
    /\ OpCounterValue(redis) = 3
    /\ Len(RedisLrange(redis, Utf8Encode(InputsKeyOf(OtherQualname)))) = 3
    /\ Len(RedisLrange(redis, Utf8Encode(OutputsKeyOf(OtherQualname)))) = 2
    /\ pc[1] = "history_out"
    /\ pc[2] = "op_method"

\* C15: in a call of store the counter goes up by one in the first step, before
\* the history is written and before store's own body starts, and no later step
\* of the call changes it: when the body raises, the counter stands exactly one
\* above what it was before the call (frame.cid - 1 calls had been counted).
C15_CountedBeforeBodyAndKept ==
    [][\A p \in Callers :
         /\ (pc[p] = "idle" /\ pc'[p] = "history_in") =>
                CounterValue(redis') = CounterValue(redis) + 1
         /\ (pc[p] \in {"history_in", "method", "history_out"} /\ pc'[p] # pc[p]) =>
                CounterValue(redis') = CounterValue(redis)
         /\ (pc[p] = "method" /\ pc'[p] = "idle") =>
                /\ out'[p].t = "exc"
                /\ CounterValue(redis') = frame[p].cid]_vars

\* C15 witness: store("x") returned, then store([1]) raised DataError, and the
\* counter reads 2
C15_Witness ==
    /\ NoCallInProgress
    /\ Len(log) = 2
    /\ log[1].result.t = "str"
    /\ log[2].args = PyList(<<PyInt(1)>>)
    /\ log[2].result = PyExc("DataError")
    /\ out[1] = PyExc("DataError")
    /\ CounterValue(redis) = 2

\* the store invocations since the last flush whose body raised
FailedCalls == { c \in 1..Len(log) : log[c].result.t = "exc" }

\* C16 (as claimed): for Cache.store, in every reachable state (Redis itself
\* answering every command): counter >= len(inputs) >= len(outputs); and when no
\* call is in progress the counter equals len(inputs) and len(inputs) -
\* len(outputs) is the number of store calls whose body raised.
C16_CounterAndHistoryLengths ==
    /\ CounterValue(redis) >= Len(InputsList(redis))
    /\ Len(InputsList(redis)) >= Len(OutputsList(redis))
    /\ NoCallInProgress =>
        /\ CounterValue(redis) = Len(InputsList(redis))
        /\ Len(InputsList(redis)) - Len(OutputsList(redis)) = Cardinality(FailedCalls)

\* C16 (amended): the same, in every reachable state in which no Cache() has
\* flushed the store in the middle of a store call since the store was last
\* flushed between calls; the failed calls counted are those since that flush.
C16_LengthsUnlessFlushedInsideCall ==
    ~FlushedInsideCall =>
        /\ CounterValue(redis) >= Len(InputsList(redis))
        /\ Len(InputsList(redis)) >= Len(OutputsList(redis))
        /\ NoCallInProgress =>
            /\ CounterValue(redis) = Len(InputsList(redis))
            /\ Len(InputsList(redis)) - Len(OutputsList(redis)) = Cardinality(FailedCalls)

\* C16 witness: a first call has raised; of two calls under way at once, one
\* is counted but has no input record yet and the other has no output record yet
C16_Witness ==
    /\ ~FlushedInsideCall
    /\ pc[1] = "history_in"
    /\ pc[2] = "history_out"
    /\ CounterValue(redis) = 3
    /\ Len(InputsList(redis)) = 2
    /\ Len(OutputsList(redis)) = 0
    /\ Cardinality(FailedCalls) = 1

\* C17 (as claimed): an entry stored at time t answers every fetch made before
\* t + ttl, however many there are, and is absent for the fetch made at t + ttl
\* or later, which runs the wrapped function anew: when three fetches fell in
\* one window, all three returned the page of the single run; and every window
\* after the first begins with a run.
C17_HitKeepsExpiry ==
    \A w \in Windows(FnDecorated) :
        /\ w.calls >= 3 => (w.runs = 1 /\ w.pages = w.calls)
        /\ w.windows >= 2 => w.runs = 1

\* C18 (as claimed): when more than maxsize (100) distinct arguments have been
\* fetched inside one TTL window, the entry of the first one has been evicted,
\* so that its next fetch runs the wrapped function a second time although its
\* ttl has not elapsed.
C18_AtMostMaxsizeEntries ==
    \A k \in DOMAIN fetches :
        (k = <<FnDecorated, 1>> /\ fetches[k].calls >= 2 /\ fetches[k].seen > maxsize) =>
            fetches[k].runs = 2

====
